---- MODULE Spec2Model ----
(***************************************************************************)
(* A model of the GROQ evaluator (src/evaluator/index.js): the Scope       *)
(* chain, the node executors, StaticSource and the evaluate entry point.   *)
(* The caller's session is the state machine: it calls evaluate(tree,      *)
(* options) and then materializes the returned Value with get().           *)
(***************************************************************************)
EXTENDS Integers, Sequences, FiniteSets, TLC

VARIABLES
  family,   \* which family of queries the caller drew the tree from
  pc,       \* "idle" | "evaluated" | "materialized" | "failed"
  tree,     \* the AST handed to evaluate
  options,  \* the options handed to evaluate
  result,   \* what evaluate returned (a Value, or whatever an executor returned)
  output,   \* the data result.get() produced
  log,      \* the calls of execute so far, in call order: [id, type, scope, ret]
  error     \* the message of the error thrown to the caller, "" when none

vars == <<family, pc, tree, options, result, output, log, error>>

----------------------------------------------------------------------------
(* Bounds of the enumerated inputs. *)

\* longest array over ElemData handed to Element and Slice; indices and slice
\* bounds range over -(MaxLen + 1) .. MaxLen + 1
MaxLen == 3
\* longest array handed to Filter
MaxFilterLen == 3
\* most documents in a collection
MaxDocs == 2
\* most attributes of an Object node
MaxAttrs == 3

----------------------------------------------------------------------------
(* JavaScript data. Every datum carries its type tag in t. *)

Undefined == [t |-> "undefined"]
JSNull == [t |-> "null"]
Bool(b) == [t |-> "boolean", v |-> b]
Num(n) == [t |-> "number", v |-> n]
Str(s) == [t |-> "string", v |-> s]
\* an array holds its elements in order
Arr(s) == [t |-> "array", v |-> s]
\* an object holds its own properties, in insertion order, as [k, v] pairs
Obj(s) == [t |-> "object", v |-> s]

Pair(k, v) == [k |-> k, v |-> v]

Keys(props) == {props[i].k : i \in 1..Len(props)}

HasOwnProperty(d, name) == d.t = "object" /\ name \in Keys(d.v)

\* d[name]: the own property, or undefined
GetProp(d, name) ==
  IF HasOwnProperty(d, name)
  THEN d.v[CHOOSE i \in 1..Len(d.v) : d.v[i].k = name].v
  ELSE Undefined

\* faulty variant of SetProp: an existing key keeps its first value
SetPropKeepFirst(props, k, v) ==
  IF k \in Keys(props) THEN props ELSE Append(props, Pair(k, v))

\* target[k] = v: overwrite in place, or add at the end
SetProp(props, k, v) ==
  IF k \in Keys(props)
  THEN [i \in 1..Len(props) |-> IF props[i].k = k THEN Pair(k, v) ELSE props[i]]
  ELSE Append(props, Pair(k, v))

RECURSIVE AssignProps(_, _, _)
AssignProps(target, src, i) ==
  IF i > Len(src) THEN target
  ELSE AssignProps(SetProp(target, src[i].k, src[i].v), src, i + 1)

\* truthiness of a datum, as `if (x)` and `x ? a : b` test it
Truthy(d) ==
  CASE d.t \in {"undefined", "null"} -> FALSE
    [] d.t = "boolean" -> d.v
    [] d.t = "number" -> d.v # 0
    [] d.t = "string" -> d.v # ""
    [] OTHER -> TRUE

\* Array.prototype.slice(start, end)
JSSlice(s, start, end) ==
  LET len == Len(s)
      k == IF start < 0 THEN (IF len + start < 0 THEN 0 ELSE len + start)
           ELSE (IF start > len THEN len ELSE start)
      final == IF end < 0 THEN (IF len + end < 0 THEN 0 ELSE len + end)
               ELSE (IF end > len THEN len ELSE end)
  IN IF k >= final THEN <<>> ELSE SubSeq(s, k + 1, final)

----------------------------------------------------------------------------
(* The Value contract (./value): StaticValue holds its data in the field   *)
(* `data`; StreamValue holds a generator, modelled by what it closes over. *)

StaticValue(d) == [cls |-> "StaticValue", data |-> d]
StreamValue(g) == [cls |-> "StreamValue", gen |-> g]

NULL_VALUE == StaticValue(JSNull)
TRUE_VALUE == StaticValue(Bool(TRUE))
FALSE_VALUE == StaticValue(Bool(FALSE))

\* whether x is a Value object, on which getType(), getBoolean(), get() exist
IsValue(x) == "cls" \in DOMAIN x

GetType(v) ==
  IF v.cls = "StreamValue" THEN "array"
  ELSE IF v.data.t = "undefined" THEN "null" ELSE v.data.t

GetBoolean(v) ==
  v.cls = "StaticValue" /\ v.data.t = "boolean" /\ v.data.v = TRUE

\* the own enumerable properties of a Value object, as Object.assign reads them
OwnProperties(v) ==
  IF v.cls = "StaticValue" THEN <<Pair("data", v.data)>>
  ELSE <<Pair("_generator", Str("[generator]"))>>

\* Object.assign(target, source)
ObjectAssign(target, source) ==
  CASE "cls" \in DOMAIN source -> AssignProps(target, OwnProperties(source), 1)
    [] source.t = "object" -> AssignProps(target, source.v, 1)
    [] OTHER -> target

----------------------------------------------------------------------------
(* Scope and StaticSource. *)

Scope(params, source, value, parent) ==
  [params |-> params, source |-> source, value |-> value, parent |-> parent]

\* faulty variant of createNested: the new scope skips a level
createNestedSkipLevel(scope, value) ==
  Scope(scope.params, scope.source, value, scope.parent)

createNested(scope, value) == Scope(scope.params, scope.source, value, scope)

StaticSource(documents) == [documents |-> documents]

createSink(source) == StaticValue(source.documents)

----------------------------------------------------------------------------
(* The outcome of a call: the value returned, the execute calls it made,   *)
(* and the message of the error it threw ("" when it returned).            *)

Ret(v, l) == [val |-> v, log |-> l, err |-> ""]
Throw(msg, l) == [val |-> Undefined, log |-> l, err |-> msg]
\* a method call on something that is no Value
TypeError == "TypeError"

\* the registries (./operators, ./functions)
OperatorNames == {"=="}
FunctionNames == {"defined"}

----------------------------------------------------------------------------
(* Iteration over array Values. A StaticValue of an array yields each      *)
(* element wrapped in a StaticValue; a StreamValue runs its generator,     *)
(* one element per pull.                                                   *)

NoIter == [k |-> "none"]

PYield(item, it, l) == [done |-> FALSE, item |-> item, it |-> it, log |-> l, err |-> ""]
PDone(it, l) == [done |-> TRUE, item |-> Undefined, it |-> it, log |-> l, err |-> ""]
PThrow(msg, it, l) == [done |-> TRUE, item |-> Undefined, it |-> it, log |-> l, err |-> msg]

RECURSIVE MakeIter(_)
\* value[Symbol.asyncIterator](): the state of one run over the Value
MakeIter(v) ==
  IF v.cls = "StaticValue"
  THEN (IF v.data.t = "array" THEN [k |-> "static", items |-> v.data.v, pos |-> 0]
        ELSE [k |-> "invalid"])
  ELSE CASE v.gen.kind \in {"Filter", "Projection"} ->
              [k |-> v.gen.kind, base |-> MakeIter(v.gen.base),
               query |-> v.gen.query, scope |-> v.gen.scope]
         [] v.gen.kind = "Flatten" ->
              [k |-> "Flatten", base |-> MakeIter(v.gen.base), inner |-> NoIter]
         [] v.gen.kind = "Array" ->
              [k |-> "Array", elements |-> v.gen.elements, pos |-> 0,
               scope |-> v.gen.scope]

RECURSIVE Execute(_, _)
RECURSIVE Pull(_)
RECURSIVE Get(_)
RECURSIVE GetLoop(_, _)
RECURSIVE ObjectLoop(_, _, _, _)
RECURSIVE DerefScan(_, _, _)

\* faulty variant of FilterYield: the generator ends at the first rejected element
FilterYieldUntilRejected(it, p, condValue) ==
  LET l == p.log \o condValue.log
      nit == [it EXCEPT !.base = p.it]
  IN IF condValue.err # "" THEN PThrow(condValue.err, nit, l)
     ELSE IF ~IsValue(condValue.val) THEN PThrow(TypeError, nit, l)
     ELSE IF GetBoolean(condValue.val) THEN PYield(p.item, nit, l)
     ELSE PDone(nit, l)

\* if (condValue.getBoolean()) yield value, else on to the next element
FilterYield(it, p, condValue) ==
  LET l == p.log \o condValue.log
      nit == [it EXCEPT !.base = p.it]
  IN IF condValue.err # "" THEN PThrow(condValue.err, nit, l)
     ELSE IF ~IsValue(condValue.val) THEN PThrow(TypeError, nit, l)
     ELSE IF GetBoolean(condValue.val) THEN PYield(p.item, nit, l)
     ELSE LET r == Pull(nit) IN [r EXCEPT !.log = l \o @]

\* the body of Filter's generator, up to its next yield
PullFilter(it) ==
  LET p == Pull(it.base) IN
  IF p.err # "" \/ p.done THEN [p EXCEPT !.it = it]
  ELSE FilterYield(it, p, Execute(it.query, createNested(it.scope, p.item)))

\* the body of Projection's generator, up to its next yield
ProjectionYield(it, p, newValue) ==
  IF newValue.err # ""
  THEN PThrow(newValue.err, [it EXCEPT !.base = p.it], p.log \o newValue.log)
  ELSE PYield(newValue.val, [it EXCEPT !.base = p.it], p.log \o newValue.log)

PullProjection(it) ==
  LET p == Pull(it.base) IN
  IF p.err # "" \/ p.done THEN [p EXCEPT !.it = it]
  ELSE ProjectionYield(it, p, Execute(it.query, createNested(it.scope, p.item)))

\* the body of Flatten's generator, up to its next yield
PullFlatten(it) ==
  IF it.inner.k # "none"
  THEN LET q == Pull(it.inner) IN
       IF q.err # "" THEN [q EXCEPT !.it = it]
       ELSE IF q.done
       THEN LET r == Pull([it EXCEPT !.inner = NoIter]) IN [r EXCEPT !.log = q.log \o @]
       ELSE PYield(q.item, [it EXCEPT !.inner = q.it], q.log)
  ELSE LET p == Pull(it.base) IN
       IF p.err # "" \/ p.done THEN [p EXCEPT !.it = it]
       ELSE IF ~IsValue(p.item) THEN PThrow(TypeError, it, p.log)
       ELSE IF GetType(p.item) = "array"
       THEN LET r == Pull([it EXCEPT !.base = p.it, !.inner = MakeIter(p.item)])
            IN [r EXCEPT !.log = p.log \o @]
       ELSE PYield(NULL_VALUE, [it EXCEPT !.base = p.it], p.log)

\* the body of Array's generator, up to its next yield
ArrayYield(it, c) ==
  IF c.err # "" THEN PThrow(c.err, [it EXCEPT !.pos = @ + 1], c.log)
  ELSE PYield(c.val, [it EXCEPT !.pos = @ + 1], c.log)

PullArray(it) ==
  IF it.pos >= Len(it.elements) THEN PDone(it, <<>>)
  ELSE ArrayYield(it, Execute(it.elements[it.pos + 1], it.scope))

\* the next element of an iteration
Pull(it) ==
  CASE it.k = "static" ->
         IF it.pos < Len(it.items)
         THEN PYield(StaticValue(it.items[it.pos + 1]), [it EXCEPT !.pos = @ + 1], <<>>)
         ELSE PDone(it, <<>>)
    [] it.k = "Filter" -> PullFilter(it)
    [] it.k = "Projection" -> PullProjection(it)
    [] it.k = "Flatten" -> PullFlatten(it)
    [] it.k = "Array" -> PullArray(it)
    [] OTHER -> PThrow("Cannot iterate", it, <<>>)

\* StreamValue.get(): for await (let value of this) result.push(await value.get())
GetPush(p, acc) ==
  IF p.err # "" THEN Throw(p.err, p.log)
  ELSE IF p.done THEN Ret(Arr(acc), p.log)
  ELSE LET g == Get(p.item) IN
       IF g.err # "" THEN Throw(g.err, p.log \o g.log)
       ELSE LET r == GetLoop(p.it, Append(acc, g.val))
            IN [r EXCEPT !.log = p.log \o g.log \o @]

GetLoop(it, acc) == GetPush(Pull(it), acc)

\* value.get(): the materialized data
Get(v) ==
  IF ~IsValue(v) THEN Throw(TypeError, <<>>)
  ELSE IF v.cls = "StaticValue" THEN Ret(v.data, <<>>)
  ELSE GetLoop(MakeIter(v), <<>>)

----------------------------------------------------------------------------
(* The registries' entries, each called with the unevaluated child nodes.  *)

\* operators['==']: both sides evaluated and materialized, then compared
OpEqCompare(lg, a, b) ==
  IF a.err # "" THEN Throw(a.err, lg \o a.log)
  ELSE IF b.err # "" THEN Throw(b.err, lg \o a.log \o b.log)
  ELSE Ret(IF a.val = b.val THEN TRUE_VALUE ELSE FALSE_VALUE, lg \o a.log \o b.log)

OpEq(left, right, scope) ==
  LET l == Execute(left, scope) IN
  IF l.err # "" THEN l
  ELSE LET r == Execute(right, scope) IN
       IF r.err # "" THEN Throw(r.err, l.log \o r.log)
       ELSE OpEqCompare(l.log \o r.log, Get(l.val), Get(r.val))

\* functions['defined']: whether the first argument is a non-null Value
FnDefined(args, scope) ==
  IF Len(args) = 0 THEN Ret(FALSE_VALUE, <<>>)
  ELSE LET a == Execute(args[1], scope) IN
       IF a.err # "" THEN a
       ELSE IF ~IsValue(a.val) THEN Throw(TypeError, a.log)
       ELSE Ret(IF GetType(a.val) # "null" THEN TRUE_VALUE ELSE FALSE_VALUE, a.log)

----------------------------------------------------------------------------
(* EXECUTORS. Each returns the Value of the node in the scope, the execute *)
(* calls made below it, and the error thrown.                              *)

ExecThis(node, scope) == Ret(scope.value, <<>>)

ExecStar(node, scope) == Ret(createSink(scope.source), <<>>)

ExecParent(node, scope) ==
  Ret(IF "params" \in DOMAIN scope.parent THEN scope.parent.value ELSE NULL_VALUE, <<>>)

\* faulty variant of ExecOpCall: an unknown operator yields null
ExecOpCallNullOnUnknown(node, scope) ==
  IF node.op \notin OperatorNames THEN Ret(NULL_VALUE, <<>>)
  ELSE OpEq(node.left, node.right, scope)

ExecOpCall(node, scope) ==
  IF node.op \notin OperatorNames THEN Throw("Unknown operator: " \o node.op, <<>>)
  ELSE OpEq(node.left, node.right, scope)

ExecFuncCall(node, scope) ==
  IF node.name \notin FunctionNames THEN Throw("Unknown function: " \o node.name, <<>>)
  ELSE FnDefined(node.args, scope)

ExecFilter(node, scope) ==
  LET b == Execute(node.base, scope) IN
  IF b.err # "" THEN b
  ELSE IF ~IsValue(b.val) THEN Throw(TypeError, b.log)
  ELSE IF GetType(b.val) # "array" THEN Ret(NULL_VALUE, b.log)
  ELSE Ret(StreamValue([kind |-> "Filter", base |-> b.val, query |-> node.query,
                        scope |-> scope]), b.log)

\* faulty variant of NormalizeIndex: a negative index is left as it is
NormalizeIndexNoWrap(idx, length) == idx

\* idx < 0 counts from the end
NormalizeIndex(idx, length) == IF idx < 0 THEN length + idx ELSE idx

\* the element at the normalized index, or null out of bounds
ElementAt(array, idx) ==
  LET i == NormalizeIndex(idx, Len(array)) IN
  IF i >= 0 /\ i < Len(array) THEN StaticValue(array[i + 1]) ELSE NULL_VALUE

\* array[idx] once the array and the index are materialized
ElementOf(lg, array, idx) ==
  IF array.err # "" THEN Throw(array.err, lg \o array.log)
  ELSE Ret(ElementAt(array.val.v, idx.val.v), lg \o array.log \o idx.log)

ExecElement(node, scope) ==
  LET b == Execute(node.base, scope) IN
  IF b.err # "" THEN b
  ELSE IF ~IsValue(b.val) THEN Throw(TypeError, b.log)
  ELSE IF GetType(b.val) # "array" THEN Ret(NULL_VALUE, b.log)
  ELSE LET i == Execute(node.index, scope) IN
       IF i.err # "" THEN Throw(i.err, b.log \o i.log)
       ELSE IF ~IsValue(i.val) THEN Throw(TypeError, b.log \o i.log)
       ELSE IF GetType(i.val) # "number" THEN Ret(NULL_VALUE, b.log \o i.log)
       ELSE ElementOf(b.log \o i.log, Get(b.val), Get(i.val))

\* faulty variant of SliceBounds: the right bound is never made exclusive
SliceBoundsNoIncrement(length, left, right, isExclusive) ==
  LET l1 == IF left < 0 THEN length + left ELSE left
      r1 == IF right < 0 THEN length + right ELSE right
  IN [leftIdx |-> IF l1 < 0 THEN 0 ELSE l1, rightIdx |-> IF r1 < 0 THEN 0 ELSE r1]

\* the bounds handed to array.slice
SliceBounds(length, left, right, isExclusive) ==
  LET l1 == IF left < 0 THEN length + left ELSE left
      r1 == IF right < 0 THEN length + right ELSE right
      r2 == IF ~isExclusive THEN r1 + 1 ELSE r1
  IN [leftIdx |-> IF l1 < 0 THEN 0 ELSE l1, rightIdx |-> IF r2 < 0 THEN 0 ELSE r2]

\* what Slice returns when a bound is no number
SliceMismatch == JSNull

\* array.slice(leftIdx, rightIdx) once the array and the bounds are materialized
SliceOf(lg, array, leftIdx, rightIdx, isExclusive) ==
  IF array.err # "" THEN Throw(array.err, lg \o array.log)
  ELSE LET bd == SliceBounds(Len(array.val.v), leftIdx.val.v, rightIdx.val.v, isExclusive)
       IN Ret(StaticValue(Arr(JSSlice(array.val.v, bd.leftIdx, bd.rightIdx))),
              lg \o array.log)

ExecSlice(node, scope) ==
  LET b == Execute(node.base, scope) IN
  IF b.err # "" THEN b
  ELSE IF ~IsValue(b.val) THEN Throw(TypeError, b.log)
  ELSE IF GetType(b.val) # "array" THEN Ret(NULL_VALUE, b.log)
  ELSE LET l == Execute(node.left, scope) IN
       IF l.err # "" THEN Throw(l.err, b.log \o l.log)
       ELSE LET r == Execute(node.right, scope)
                lg == b.log \o l.log \o r.log
            IN IF r.err # "" THEN Throw(r.err, lg)
               ELSE IF ~IsValue(l.val) \/ ~IsValue(r.val) THEN Throw(TypeError, lg)
               ELSE IF GetType(l.val) # "number" \/ GetType(r.val) # "number"
               THEN Ret(SliceMismatch, lg)
               ELSE SliceOf(lg, Get(b.val), Get(l.val), Get(r.val), node.isExclusive)

\* base[name] behind the object and hasOwnProperty tests
OwnPropertyValue(baseValue, name) ==
  IF GetType(baseValue) = "object" /\ HasOwnProperty(baseValue.data, name)
  THEN StaticValue(GetProp(baseValue.data, name))
  ELSE NULL_VALUE

ExecAttribute(node, scope) ==
  LET b == Execute(node.base, scope) IN
  IF b.err # "" THEN b
  ELSE IF ~IsValue(b.val) THEN Throw(TypeError, b.log)
  ELSE Ret(OwnPropertyValue(b.val, node.name), b.log)

ExecIdentifier(node, scope) ==
  IF ~IsValue(scope.value) THEN Throw(TypeError, <<>>)
  ELSE Ret(OwnPropertyValue(scope.value, node.name), <<>>)

ExecValue(node, scope) == Ret(StaticValue(node.value), <<>>)

ExecProjection(node, scope) ==
  LET b == Execute(node.base, scope) IN
  IF b.err # "" THEN b
  ELSE IF ~IsValue(b.val) THEN Throw(TypeError, b.log)
  ELSE IF GetType(b.val) = "array"
  THEN Ret(StreamValue([kind |-> "Projection", base |-> b.val, query |-> node.query,
                        scope |-> scope]), b.log)
  ELSE LET newScope == createNested(scope, b.val)
           q == Execute(node.query, newScope)
       IN [q EXCEPT !.log = b.log \o @]

ExecFlatten(node, scope) ==
  LET b == Execute(node.base, scope) IN
  IF b.err # "" THEN b
  ELSE IF ~IsValue(b.val) THEN Throw(TypeError, b.log)
  ELSE IF GetType(b.val) # "array" THEN Ret(NULL_VALUE, b.log)
  ELSE Ret(StreamValue([kind |-> "Flatten", base |-> b.val]), b.log)

\* faulty variant of DerefScan: the last matching document wins
DerefScanLast(docs, id, i) ==
  LET matches == {j \in i..Len(docs) : GetProp(docs[j], "_id") = id} IN
  IF matches = {} THEN Ret(NULL_VALUE, <<>>)
  ELSE Ret(StaticValue(docs[CHOOSE j \in matches : \A m \in matches : m <= j]), <<>>)

\* for await (let doc of sink) if (id === doc.data._id) return doc
DerefScan(docs, id, i) ==
  IF i > Len(docs) THEN Ret(NULL_VALUE, <<>>)
  ELSE IF docs[i].t \in {"null", "undefined"} THEN Throw(TypeError, <<>>)
  ELSE IF GetProp(docs[i], "_id") = id THEN Ret(StaticValue(docs[i]), <<>>)
  ELSE DerefScan(docs, id, i + 1)

ExecDeref(node, scope) ==
  LET b == Execute(node.base, scope) IN
  IF b.err # "" THEN b
  ELSE IF ~IsValue(b.val) THEN Throw(TypeError, b.log)
  ELSE IF GetType(b.val) # "object" THEN Ret(NULL_VALUE, b.log)
  ELSE LET id == GetProp(b.val.data, "_ref") IN
       IF id.t # "string" THEN Ret(NULL_VALUE, b.log)
       ELSE LET sink == createSink(scope.source)
                d == IF sink.data.t = "array" THEN DerefScan(sink.data.v, id, 1)
                     ELSE Throw("Cannot iterate", <<>>)
            IN [d EXCEPT !.log = b.log]

\* case 'ObjectSplat'
Splat(props, scope) == ObjectAssign(props, scope.value)

\* result[key.data] = await value.get(), then on to the next attribute
ObjectStore(attributes, i, props, scope, k, lg, g) ==
  IF g.err # "" THEN Throw(g.err, lg \o g.log)
  ELSE LET r == ObjectLoop(attributes, i + 1, SetProp(props, k, g.val), scope)
       IN [r EXCEPT !.log = lg \o g.log \o @]

\* the attributes from the i-th on, applied to the result so far
ObjectLoop(attributes, i, props, scope) ==
  IF i > Len(attributes) THEN Ret(StaticValue(Obj(props)), <<>>)
  ELSE LET attr == attributes[i] IN
    CASE attr.type = "ObjectSplat" ->
           ObjectLoop(attributes, i + 1, Splat(props, scope), scope)
      [] attr.type = "ObjectAttribute" ->
           LET key == Execute(attr.key, scope) IN
           IF key.err # "" THEN key
           ELSE IF ~IsValue(key.val) THEN Throw(TypeError, key.log)
           ELSE IF GetType(key.val) # "string"
           THEN LET r == ObjectLoop(attributes, i + 1, props, scope)
                IN [r EXCEPT !.log = key.log \o @]
           ELSE LET value == Execute(attr.value, scope)
                    lg == key.log \o value.log
                IN IF value.err # "" THEN Throw(value.err, lg)
                   ELSE IF ~IsValue(value.val) THEN Throw(TypeError, lg)
                   ELSE IF GetType(value.val) = "null"
                   THEN LET r == ObjectLoop(attributes, i + 1, props, scope)
                        IN [r EXCEPT !.log = lg \o @]
                   ELSE ObjectStore(attributes, i, props, scope, key.val.data.v, lg,
                                    Get(value.val))
      [] OTHER -> Throw("Unknown node type: " \o attr.type, <<>>)

ExecObject(node, scope) == ObjectLoop(node.attributes, 1, <<>>, scope)

ExecArray(node, scope) ==
  Ret(StreamValue([kind |-> "Array", elements |-> node.elements, scope |-> scope]), <<>>)

\* faulty variant of ExecAnd: both operands are evaluated before either is tested
ExecAndEager(node, scope) ==
  LET l == Execute(node.left, scope) IN
  IF l.err # "" THEN l
  ELSE LET r == Execute(node.right, scope)
           lg == l.log \o r.log
       IN IF r.err # "" THEN Throw(r.err, lg)
          ELSE IF ~IsValue(l.val) \/ ~IsValue(r.val) THEN Throw(TypeError, lg)
          ELSE IF GetBoolean(l.val) /\ GetBoolean(r.val) THEN Ret(TRUE_VALUE, lg)
          ELSE Ret(FALSE_VALUE, lg)

ExecAnd(node, scope) ==
  LET l == Execute(node.left, scope) IN
  IF l.err # "" THEN l
  ELSE IF ~IsValue(l.val) THEN Throw(TypeError, l.log)
  ELSE IF ~GetBoolean(l.val) THEN Ret(FALSE_VALUE, l.log)
  ELSE LET r == Execute(node.right, scope)
           lg == l.log \o r.log
       IN IF r.err # "" THEN Throw(r.err, lg)
          ELSE IF ~IsValue(r.val) THEN Throw(TypeError, lg)
          ELSE IF ~GetBoolean(r.val) THEN Ret(FALSE_VALUE, lg)
          ELSE Ret(TRUE_VALUE, lg)

ExecNot(node, scope) ==
  LET b == Execute(node.base, scope) IN
  IF b.err # "" THEN b
  ELSE IF ~IsValue(b.val) THEN Throw(TypeError, b.log)
  ELSE Ret(IF GetBoolean(b.val) THEN FALSE_VALUE ELSE TRUE_VALUE, b.log)

\* EXECUTORS[node.type](node, scope)
Dispatch(node, scope) ==
          CASE node.type = "This" -> ExecThis(node, scope)
             [] node.type = "Star" -> ExecStar(node, scope)
             [] node.type = "Parent" -> ExecParent(node, scope)
             [] node.type = "OpCall" -> ExecOpCall(node, scope)
             [] node.type = "FuncCall" -> ExecFuncCall(node, scope)
             [] node.type = "Filter" -> ExecFilter(node, scope)
             [] node.type = "Element" -> ExecElement(node, scope)
             [] node.type = "Slice" -> ExecSlice(node, scope)
             [] node.type = "Attribute" -> ExecAttribute(node, scope)
             [] node.type = "Identifier" -> ExecIdentifier(node, scope)
             [] node.type = "Value" -> ExecValue(node, scope)
             [] node.type = "Projection" -> ExecProjection(node, scope)
             [] node.type = "Flatten" -> ExecFlatten(node, scope)
             [] node.type = "Deref" -> ExecDeref(node, scope)
             [] node.type = "Object" -> ExecObject(node, scope)
             [] node.type = "Array" -> ExecArray(node, scope)
             [] node.type = "And" -> ExecAnd(node, scope)
             [] node.type = "Not" -> ExecNot(node, scope)
             [] OTHER -> Throw("No executor for node.type=" \o node.type, <<>>)

\* the call is recorded with what it returned, ahead of the calls below it
Logged(node, scope, r) ==
  [r EXCEPT !.log = <<[id |-> node.id, type |-> node.type, scope |-> scope,
                       ret |-> r.val]>> \o @]

\* execute(node, scope)
Execute(node, scope) == Logged(node, scope, Dispatch(node, scope))

DefaultParams == <<Pair("identity", Str("groot"))>>

\* evaluate(tree, options)
evaluate(t, opts) ==
  IF opts.documents.t \notin {"null", "undefined"} /\ opts.documents.t # "array"
  THEN Throw("documents must be an array", <<>>)
  ELSE LET source == IF opts.documents.t \notin {"null", "undefined"}
                     THEN StaticSource(opts.documents)
                     ELSE StaticSource(Arr(<<>>))
           params == IF Truthy(opts.params)
                     THEN ObjectAssign(DefaultParams, opts.params)
                     ELSE DefaultParams
           scope == Scope(Obj(params), source, NULL_VALUE, JSNull)
       IN Execute(t, scope)

----------------------------------------------------------------------------
(* AST nodes, as the parser hands them over. id names the node object.     *)

ValueNode(id, d) == [type |-> "Value", id |-> id, value |-> d]
ThisNode(id) == [type |-> "This", id |-> id]
StarNode(id) == [type |-> "Star", id |-> id]
ParentNode(id) == [type |-> "Parent", id |-> id]
OpCallNode(id, op, left, right) ==
  [type |-> "OpCall", id |-> id, op |-> op, left |-> left, right |-> right]
FuncCallNode(id, name, args) == [type |-> "FuncCall", id |-> id, name |-> name, args |-> args]
FilterNode(id, base, query) == [type |-> "Filter", id |-> id, base |-> base, query |-> query]
ElementNode(id, base, index) == [type |-> "Element", id |-> id, base |-> base, index |-> index]
SliceNode(id, base, left, right, isExclusive) ==
  [type |-> "Slice", id |-> id, base |-> base, left |-> left, right |-> right,
   isExclusive |-> isExclusive]
AttributeNode(id, base, name) == [type |-> "Attribute", id |-> id, base |-> base, name |-> name]
IdentifierNode(id, name) == [type |-> "Identifier", id |-> id, name |-> name]
ProjectionNode(id, base, query) ==
  [type |-> "Projection", id |-> id, base |-> base, query |-> query]
FlattenNode(id, base) == [type |-> "Flatten", id |-> id, base |-> base]
DerefNode(id, base) == [type |-> "Deref", id |-> id, base |-> base]
ObjectNode(id, attributes) == [type |-> "Object", id |-> id, attributes |-> attributes]
ObjectSplat == [type |-> "ObjectSplat"]
ObjectAttribute(key, value) == [type |-> "ObjectAttribute", key |-> key, value |-> value]
ArrayNode(id, elements) == [type |-> "Array", id |-> id, elements |-> elements]
AndNode(id, left, right) == [type |-> "And", id |-> id, left |-> left, right |-> right]
NotNode(id, base) == [type |-> "Not", id |-> id, base |-> base]

----------------------------------------------------------------------------
(* The inputs the caller draws from.                                       *)

SeqsUpTo(S, n) == UNION {[1..m -> S] : m \in 0..n}

NoOptions == [documents |-> Undefined, params |-> Undefined]
WithDocuments(docs) == [documents |-> docs, params |-> Undefined]

Scalars == {JSNull, Bool(TRUE), Bool(FALSE), Num(1), Str("a")}

ElemData == {Num(1), Num(2)}
Example1234 == <<Num(1), Num(2), Num(3), Num(4)>>
Arrays == SeqsUpTo(ElemData, MaxLen) \cup {Example1234}
IdxRange == (0 - (MaxLen + 1))..(MaxLen + 1)

\* an Array node of literals: the same array, lazily streamed
ArrayOfValues(id, A) == ArrayNode(id, [i \in 1..Len(A) |-> ValueNode("el", A[i])])

\* the array a literal base node denotes
LiteralArray(node) ==
  IF node.type = "Value" THEN node.value.v
  ELSE [i \in 1..Len(node.elements) |-> node.elements[i].value]

ArrayBases == {ValueNode("base", Arr(A)) : A \in Arrays}
                \cup {ArrayOfValues("base", A) : A \in SeqsUpTo(ElemData, 2)}

ElementTrees ==
  {ElementNode("root", b, ValueNode("index", Num(i))) : b \in ArrayBases, i \in IdxRange}

SliceTrees ==
  {SliceNode("root", b, ValueNode("left", Num(l)), ValueNode("right", Num(r)), x) :
     b \in ArrayBases, l \in IdxRange, r \in IdxRange, x \in BOOLEAN}

Doc(id, v) == Obj(<<Pair("_id", Str(id)), Pair("v", Num(v))>>)
DocPool == {Doc("x", 1), Doc("y", 2), Doc("x", 3), Obj(<<Pair("v", Num(4))>>)}
Collections == {Arr(d) : d \in SeqsUpTo(DocPool, MaxDocs)}

\* --- data-shape mismatches: the mismatching node is "m"
NonArrays == Scalars \cup {Obj(<<Pair("a", Num(1))>>)}
NonNumbers == {JSNull, Bool(TRUE), Str("1"), Arr(<<Num(1)>>)}
NonObjects == Scalars \cup {Arr(<<Num(1)>>)}
SomeArray == ValueNode("base", Arr(<<Num(1), Num(2)>>))
RefObjects ==
  {Obj(<<Pair("b", Num(1))>>), Obj(<<Pair("_ref", Num(1))>>), Obj(<<Pair("_ref", JSNull)>>),
   Obj(<<Pair("_ref", Str("nowhere"))>>)}

MismatchNodes ==
  {ElementNode("m", ValueNode("base", d), ValueNode("index", Num(0))) : d \in NonArrays}
  \cup {ElementNode("m", SomeArray, ValueNode("index", d)) : d \in NonNumbers}
  \cup {SliceNode("m", ValueNode("base", d), ValueNode("left", Num(0)),
                  ValueNode("right", Num(1)), x) : d \in NonArrays, x \in BOOLEAN}
  \cup {SliceNode("m", SomeArray, ValueNode("left", d), ValueNode("right", Num(1)), x) :
          d \in NonNumbers, x \in BOOLEAN}
  \cup {SliceNode("m", SomeArray, ValueNode("left", Num(0)), ValueNode("right", d), x) :
          d \in NonNumbers, x \in BOOLEAN}
  \cup {FilterNode("m", ValueNode("base", d), ValueNode("query", Bool(TRUE))) : d \in NonArrays}
  \cup {FlattenNode("m", ValueNode("base", d)) : d \in NonArrays}
  \cup {AttributeNode("m", ValueNode("base", d), "a") : d \in NonObjects}
  \cup {AttributeNode("m", ValueNode("base", Obj(<<Pair("b", Num(1))>>)), "a")}
  \cup {AttributeNode("m", ThisNode("base"), "a")}
  \cup {IdentifierNode("m", "a")}
  \cup {DerefNode("m", ValueNode("base", d)) : d \in NonObjects \cup RefObjects}
  \cup {DerefNode("m", ThisNode("base"))}

\* the mismatching node at the root, and in nested scopes over other values
MismatchTrees ==
  MismatchNodes
  \cup {ProjectionNode("root", ValueNode("this", d), m) :
          d \in {Num(1), Obj(<<Pair("b", Num(1))>>), Arr(<<Str("a"), Obj(<<>>)>>)},
          m \in MismatchNodes}

\* --- Object nodes
KeyNodes == {ValueNode("k", Str("a")), ValueNode("k", Str("b")), ValueNode("k", Num(1))}
ValueNodes == {ValueNode("v", Num(1)), ValueNode("v", Num(2)), ValueNode("v", JSNull)}
AttrChoices == {ObjectAttribute(k, v) : k \in KeyNodes, v \in ValueNodes}

\* the i-th attribute's key is node "k<i>" and its value node "v<i>"
Numbered(attrs) ==
  [i \in 1..Len(attrs) |->
     IF attrs[i].type = "ObjectAttribute"
     THEN ObjectAttribute([attrs[i].key EXCEPT !.id = "k" \o ToString(i)],
                          [attrs[i].value EXCEPT !.id = "v" \o ToString(i)])
     ELSE attrs[i]]

ObjectTrees == {ObjectNode("root", Numbered(a)) : a \in SeqsUpTo(AttrChoices, MaxAttrs)}

ThisObjects ==
  {Obj(<<>>), Obj(<<Pair("a", Num(5))>>), Obj(<<Pair("a", Num(5)), Pair("c", Num(6))>>),
   Obj(<<Pair("data", Num(7))>>)}
SplatChoices ==
  {ObjectSplat, ObjectAttribute(ValueNode("k", Str("a")), ValueNode("v", Num(1))),
   ObjectAttribute(ValueNode("k", Str("b")), ValueNode("v", Num(2)))}
SplatLists == {a \in SeqsUpTo(SplatChoices, 3) : \E i \in 1..Len(a) : a[i] = ObjectSplat}
SplatTrees ==
  {ProjectionNode("root", ValueNode("this", d), ObjectNode("obj", Numbered(a))) :
     d \in ThisObjects, a \in SplatLists}

\* --- Filter nodes
FilterElems ==
  {Obj(<<Pair("k", Bool(TRUE)), Pair("n", Num(1))>>),
   Obj(<<Pair("k", Bool(FALSE)), Pair("n", Num(2))>>),
   Obj(<<Pair("k", Num(1)), Pair("n", Num(3))>>),
   Bool(TRUE)}
PredK == IdentifierNode("q", "k")
PredThis == ThisNode("q")
PredNotK == NotNode("q", IdentifierNode("q.base", "k"))
PredTrue == ValueNode("q", Bool(TRUE))
PredOne == ValueNode("q", Num(1))
PredAnd == AndNode("q", IdentifierNode("q.left", "k"),
                   AttributeNode("q.right", ThisNode("q.this"), "k"))
Predicates == {PredK, PredThis, PredNotK, PredTrue, PredOne, PredAnd}
FilterTrees ==
  {FilterNode("root", ValueNode("base", Arr(A)), P) :
     A \in SeqsUpTo(FilterElems, MaxFilterLen), P \in Predicates}
  \cup {FilterNode("root", ArrayOfValues("base", A), P) :
          A \in SeqsUpTo(FilterElems, 2), P \in Predicates}

\* --- Deref nodes
RefIds == {"x", "y", "z"}
Ref(id) == Obj(<<Pair("_ref", Str(id))>>)
DerefTrees ==
  {DerefNode("d", ValueNode("base", Ref(id))) : id \in RefIds}
  \cup {ProjectionNode("root", ValueNode("refs", Arr(<<Ref(a), Ref(b)>>)),
                       DerefNode("d", ThisNode("base"))) : a \in RefIds, b \in RefIds}
  \cup {ProjectionNode("root", ValueNode("outer", Num(0)),
                       ProjectionNode("inner", ValueNode("refs", Arr(<<Ref(a), Ref(b)>>)),
                                      DerefNode("d", ThisNode("base")))) :
          a \in RefIds, b \in RefIds}

\* --- And nodes
AndLefts ==
  {ValueNode("left", d) : d \in Scalars \cup {Str("true"), Arr(<<Bool(TRUE)>>)}}
  \cup {ThisNode("left"), NotNode("left", ValueNode("left.base", Bool(FALSE)))}
AndRights ==
  {ValueNode("right", d) : d \in Scalars}
  \cup {NotNode("right", ValueNode("right.base", Bool(FALSE))),
        FuncCallNode("right", "defined", <<ValueNode("right.arg", Num(1))>>),
        OpCallNode("right", "==", ValueNode("right.left", Num(1)),
                   ValueNode("right.right", Num(1)))}
AndTrees == {AndNode("root", l, r) : l \in AndLefts, r \in AndRights}

\* --- OpCall and FuncCall nodes: a call of a registered name is "call", a call
\* of a name in neither registry is "bad"; their operands are "x" and "y"
OperandData == {Num(1), JSNull}
UnknownOperators == {"~~", "+"}
UnknownFunctions == {"nope"}
Calls ==
  {OpCallNode("call", "==", ValueNode("x", d), ValueNode("y", Num(1))) : d \in OperandData}
  \cup {FuncCallNode("call", "defined", <<ValueNode("x", d)>>) : d \in OperandData}
  \cup {OpCallNode("bad", op, ValueNode("x", d), ValueNode("y", Num(1))) :
          op \in UnknownOperators, d \in OperandData}
  \cup {FuncCallNode("bad", name, <<ValueNode("x", d)>>) :
          name \in UnknownFunctions, d \in OperandData}
CallContexts(c) ==
  {c,
   NotNode("root", c),
   AndNode("root", ValueNode("left", Bool(TRUE)), c),
   AndNode("root", ValueNode("left", Bool(FALSE)), c),
   FilterNode("root", SomeArray, c),
   ProjectionNode("root", SomeArray, c),
   ProjectionNode("root", ValueNode("base", Num(1)), c),
   ArrayNode("root", <<ValueNode("first", Num(1)), c, ValueNode("last", Num(2))>>),
   ObjectNode("root", <<ObjectAttribute(ValueNode("k", Str("a")), c)>>),
   ElementNode("root", ArrayNode("arr", <<c>>), ValueNode("index", Num(0))),
   ElementNode("root", ArrayNode("arr", <<c>>), ValueNode("index", Str("0"))),
   FlattenNode("root", ArrayNode("arr", <<ArrayNode("in", <<c>>)>>)),
   DerefNode("root", c),
   AttributeNode("root", c, "a")}
CallTrees == UNION {CallContexts(c) : c \in Calls}

\* --- nested scopes
NestValues == {Arr(<<Num(1), Num(2)>>), Arr(<<Num(3)>>), Obj(<<Pair("a", Num(1))>>), Num(5)}
NestQueries ==
  {ParentNode("par"),
   ThisNode("this"),
   ArrayNode("arr", <<ParentNode("par"), ThisNode("this")>>),
   ProjectionNode("p3", ValueNode("v3", Arr(<<Num(7)>>)), ParentNode("par3")),
   OpCallNode("op", "==", ParentNode("par"), ValueNode("c", Num(1)))}
Nesters == {"Projection", "Filter"}
Nest(kind, id, base, query) == [type |-> kind, id |-> id, base |-> base, query |-> query]
NestTrees ==
  {ParentNode("par0")}
  \cup {Nest(k1, "p1", ValueNode("v1", d1), Nest(k2, "p2", ValueNode("v2", d2), q)) :
          k1 \in Nesters, k2 \in Nesters, d1 \in NestValues, d2 \in NestValues,
          q \in NestQueries}
NestOptions ==
  {[documents |-> d, params |-> p] :
     d \in {Undefined, Arr(<<Doc("x", 1)>>)},
     p \in {Undefined, Obj(<<Pair("x", Num(1))>>), Obj(<<Pair("identity", Str("me"))>>)}}

\* --- Star and Flatten
StarOptions ==
  {WithDocuments(d) : d \in Collections \cup {Undefined, JSNull, Str("docs"), Obj(<<>>)}}
FlattenTrees ==
  {FlattenNode("root", ValueNode("base", Arr(<<Arr(<<Num(1), Num(2)>>), Num(3), Arr(<<Num(4)>>)>>))),
   FlattenNode("root", ArrayNode("base", <<ArrayOfValues("in", <<Num(1), Num(2)>>),
                                          ValueNode("three", Num(3))>>)),
   FlattenNode("root", StarNode("base"))}

----------------------------------------------------------------------------
(* The caller: one call of evaluate, then one call of get() on what it     *)
(* returned.                                                               *)

NoTree == [type |-> "none", id |-> "none"]

Init ==
  /\ family = "none"
  /\ pc = "idle"
  /\ tree = NoTree
  /\ options = NoOptions
  /\ result = Undefined
  /\ output = Undefined
  /\ log = <<>>
  /\ error = ""

\* await evaluate(t, opts)
CallEvaluate(f, t, opts) ==
  /\ pc = "idle"
  /\ LET r == evaluate(t, opts) IN
       /\ family' = f
       /\ pc' = IF r.err # "" THEN "failed" ELSE "evaluated"
       /\ tree' = t
       /\ options' = opts
       /\ result' = r.val
       /\ output' = Undefined
       /\ log' = r.log
       /\ error' = r.err

EvaluateStar == \E o \in StarOptions : CallEvaluate("Star", StarNode("root"), o)
EvaluateFlatten ==
  \E t \in FlattenTrees, d \in Collections : CallEvaluate("Flatten", t, WithDocuments(d))
EvaluateElement == \E t \in ElementTrees : CallEvaluate("Element", t, NoOptions)
EvaluateSlice == \E t \in SliceTrees : CallEvaluate("Slice", t, NoOptions)
EvaluateMismatch ==
  \E t \in MismatchTrees, d \in {Undefined, Arr(<<Doc("x", 1), Doc("y", 2)>>)} :
    CallEvaluate("Mismatch", t, WithDocuments(d))
EvaluateObject == \E t \in ObjectTrees : CallEvaluate("Object", t, NoOptions)
EvaluateSplat == \E t \in SplatTrees : CallEvaluate("Splat", t, NoOptions)
EvaluateFilter == \E t \in FilterTrees : CallEvaluate("Filter", t, NoOptions)
EvaluateDeref ==
  \E t \in DerefTrees, d \in Collections : CallEvaluate("Deref", t, WithDocuments(d))
EvaluateAnd == \E t \in AndTrees : CallEvaluate("And", t, NoOptions)
EvaluateCall == \E t \in CallTrees : CallEvaluate("Call", t, NoOptions)
EvaluateNest == \E t \in NestTrees, o \in NestOptions : CallEvaluate("Nest", t, o)

\* await result.get()
Materialize ==
  /\ pc = "evaluated"
  /\ LET g == Get(result) IN
       /\ pc' = IF g.err # "" THEN "failed" ELSE "materialized"
       /\ output' = g.val
       /\ log' = log \o g.log
       /\ error' = g.err
  /\ UNCHANGED <<family, tree, options, result>>

Next ==
  \/ EvaluateStar
  \/ EvaluateFlatten
  \/ EvaluateElement
  \/ EvaluateSlice
  \/ EvaluateMismatch
  \/ EvaluateObject
  \/ EvaluateSplat
  \/ EvaluateFilter
  \/ EvaluateDeref
  \/ EvaluateAnd
  \/ EvaluateCall
  \/ EvaluateNest
  \/ Materialize

Spec == Init /\ [][Next]_vars

----------------------------------------------------------------------------
(* Properties of the evaluator.                                            *)

\* the ids of the execute calls so far, in call order
LogIds == [i \in 1..Len(log) |-> log[i].id]

\* C1: for every array A and integer index i, Element yields A[i] when
\* 0 <= i < len(A), A[len(A) + i] when -len(A) <= i < 0, and the null Value
\* for every other i (for every i when A is empty); it never throws.
C1_ElementIndexing ==
  family = "Element" =>
    LET A == LiteralArray(tree.base)
        i == tree.index.value.v
        n == Len(A)
    IN /\ pc # "failed"
       /\ (0 <= i /\ i < n) => result = StaticValue(A[i + 1])
       /\ (0 - n <= i /\ i < 0) => result = StaticValue(A[n + i + 1])
       /\ (i >= n \/ i < 0 - n) => result = NULL_VALUE

\* a negative index inside the array picked the element counted from the end
C1_Witness ==
  /\ family = "Element"
  /\ Len(LiteralArray(tree.base)) = 3
  /\ tree.index.value.v = 0 - 2
  /\ result = StaticValue(LiteralArray(tree.base)[2])

\* C2: Slice yields the elements of A from position L (inclusive) to R
\* (exclusive), cut at len(A), where L and R are the bounds with len(A) added
\* when negative, R then incremented when the range is inclusive, and both
\* then raised to 0 when still negative; so Slice(A, 0, len(A), exclusive) is
\* A, and Slice([1,2,3,4], 1, 2) is [2,3] inclusive and [2] exclusive.
C2_SliceRange ==
  family = "Slice" =>
    LET A == LiteralArray(tree.base)
        n == Len(A)
        l == tree.left.value.v
        r == tree.right.value.v
        L0 == IF l < 0 THEN l + n ELSE l
        R0 == IF r < 0 THEN r + n ELSE r
        R1 == IF tree.isExclusive THEN R0 ELSE R0 + 1
        L == IF L0 < 0 THEN 0 ELSE L0
        R == IF R1 < 0 THEN 0 ELSE R1
        hi == IF R > n THEN n ELSE R
        expected == [j \in 1..(IF hi > L THEN hi - L ELSE 0) |-> A[L + j]]
    IN /\ pc # "failed"
       /\ result = StaticValue(Arr(expected))
       /\ (l = 0 /\ r = n /\ tree.isExclusive) => result = StaticValue(Arr(A))
       /\ (A = Example1234 /\ l = 1 /\ r = 2) =>
            result = StaticValue(Arr(IF tree.isExclusive THEN <<Num(2)>>
                                     ELSE <<Num(2), Num(3)>>))

\* the inclusive slice 1..2 of [1,2,3,4] came out as [2,3]
C2_Witness ==
  /\ family = "Slice"
  /\ LiteralArray(tree.base) = Example1234
  /\ tree.left.value.v = 1
  /\ tree.right.value.v = 2
  /\ ~tree.isExclusive
  /\ result = StaticValue(Arr(<<Num(2), Num(3)>>))

\* C3: every data-shape mismatch (a non-array base of Element, Slice, Filter
\* or Flatten; a non-number index of Element; a non-number bound of Slice; a
\* non-object base or missing key of Attribute and Identifier; a non-object
\* base, a missing or non-string _ref, or an unmatched _ref in Deref) makes
\* the node return a Value of type null, in every scope and with every
\* document collection, and throws nothing.
C3_MismatchYieldsNullValue ==
  family = "Mismatch" =>
    /\ error = ""
    /\ \A i \in 1..Len(log) :
         log[i].id = "m" => IsValue(log[i].ret) /\ GetType(log[i].ret) = "null"

\* C4: an ObjectSplat in a scope whose value is an object merges every own
\* property of that object into the result, overwriting earlier same-named
\* keys and overwritten by later ones, and adds no key that is not an own
\* property of that object.
C4_SplatMergesOwnProperties ==
  (family = "Splat" /\ pc # "idle") =>
    LET this == tree.base.value
        attrs == tree.query.attributes
        SetLater(i, k) ==
          \E j \in (i + 1)..Len(attrs) :
            attrs[j].type = "ObjectAttribute" /\ attrs[j].key.value = Str(k)
        AttrKeys == {attrs[j].key.value.v :
                       j \in {j \in 1..Len(attrs) : attrs[j].type = "ObjectAttribute"}}
    IN /\ pc # "failed"
       /\ GetType(result) = "object"
       /\ \A i \in 1..Len(attrs) :
            attrs[i].type = "ObjectSplat" =>
              \A k \in Keys(this.v) :
                ~SetLater(i, k) => GetProp(result.data, k) = GetProp(this, k)
       /\ Keys(result.data.v) \subseteq Keys(this.v) \cup AttrKeys

\* C5: the Object node's result holds key k with value v exactly when the
\* last attribute whose key is the string k and whose value is not null has
\* value v; an attribute with a non-string key is skipped without its value
\* expression being evaluated, and a null-valued attribute neither removes
\* nor overwrites an earlier entry.
C5_ObjectAttributes ==
  family = "Object" =>
    LET attrs == tree.attributes
        Stores(i) == attrs[i].key.value.t = "string" /\ attrs[i].value.value.t # "null"
        Storing(k) == {i \in 1..Len(attrs) : Stores(i) /\ attrs[i].key.value.v = k}
        Last(k) == CHOOSE i \in Storing(k) : \A j \in Storing(k) : j <= i
        CallsOf(id) == {j \in 1..Len(log) : log[j].id = id}
    IN /\ pc # "failed"
       /\ GetType(result) = "object"
       /\ \A k \in {"a", "b"} :
            /\ HasOwnProperty(result.data, k) <=> Storing(k) # {}
            /\ Storing(k) # {} => GetProp(result.data, k) = attrs[Last(k)].value.value
       /\ Keys(result.data.v) \subseteq {"a", "b"}
       /\ \A i \in 1..Len(attrs) :
            /\ Cardinality(CallsOf("k" \o ToString(i))) = 1
            /\ Cardinality(CallsOf("v" \o ToString(i))) =
                 (IF attrs[i].key.value.t = "string" THEN 1 ELSE 0)

\* a: 1, a: 2, a: null left a at 2
C5_Witness ==
  /\ family = "Object"
  /\ Len(tree.attributes) = 3
  /\ \A i \in 1..3 : tree.attributes[i].key.value = Str("a")
  /\ tree.attributes[1].value.value = Num(1)
  /\ tree.attributes[2].value.value = Num(2)
  /\ tree.attributes[3].value.value = JSNull
  /\ result = StaticValue(Obj(<<Pair("a", Num(2))>>))

\* whether predicate q, evaluated with element e as `this`, coerces to true
PredicateAccepts(q, e) ==
  LET kTrue == e.t = "object" /\ GetProp(e, "k") = Bool(TRUE) IN
  CASE q = PredK -> kTrue
    [] q = PredThis -> e = Bool(TRUE)
    [] q = PredNotK -> ~kTrue
    [] q = PredTrue -> TRUE
    [] q = PredOne -> FALSE
    [] q = PredAnd -> kTrue

\* C6: the materialized result of Filter(A, P) is exactly the sub-sequence of
\* A, in A's order, of the elements for which P, evaluated in a nested scope
\* whose value is the element, coerces to true; P is evaluated exactly once
\* per element of A, in A's order.
C6_FilterSubsequence ==
  family = "Filter" =>
    LET A == LiteralArray(tree.base)
        Accepted(e) == PredicateAccepts(tree.query, e)
        IsQuery(c) == c.id = "q"
        queries == SelectSeq(log, IsQuery)
    IN /\ pc # "failed"
       /\ pc = "materialized" =>
            /\ output = Arr(SelectSeq(A, Accepted))
            /\ Len(queries) = Len(A)
            /\ \A i \in 1..Len(A) :
                 /\ queries[i].scope.value = StaticValue(A[i])
                 /\ queries[i].scope.parent = log[1].scope

\* of three elements the middle one was rejected and the others kept, in order
C6_Witness ==
  /\ family = "Filter"
  /\ pc = "materialized"
  /\ tree.query = PredK
  /\ Len(LiteralArray(tree.base)) = 3
  /\ PredicateAccepts(PredK, LiteralArray(tree.base)[1])
  /\ ~PredicateAccepts(PredK, LiteralArray(tree.base)[2])
  /\ PredicateAccepts(PredK, LiteralArray(tree.base)[3])
  /\ output = Arr(<<LiteralArray(tree.base)[1], LiteralArray(tree.base)[3]>>)

\* C7: for a base object whose _ref is the string id, Deref yields the first
\* document of the collection, in collection order, whose _id equals id, and
\* the null Value when there is none, whatever the current scope value and
\* the nesting depth.
C7_DerefFirstMatch ==
  family = "Deref" =>
    LET docs == options.documents.v
        Matches(id) == {j \in 1..Len(docs) : GetProp(docs[j], "_id") = id}
        First(id) == CHOOSE j \in Matches(id) : \A m \in Matches(id) : j <= m
        Expected(id) == IF Matches(id) = {} THEN NULL_VALUE ELSE StaticValue(docs[First(id)])
        RefOf(c) == IF tree.type = "Deref" THEN GetProp(tree.base.value, "_ref")
                    ELSE GetProp(c.scope.value.data, "_ref")
    IN /\ pc # "failed"
       /\ \A i \in 1..Len(log) :
            log[i].type = "Deref" => log[i].ret = Expected(RefOf(log[i]))
       /\ (tree.type = "Projection" /\ tree.base.id = "refs" /\ pc = "materialized") =>
            output = Arr(<<Expected(GetProp(tree.base.value.v[1], "_ref")).data,
                           Expected(GetProp(tree.base.value.v[2], "_ref")).data>>)

\* two documents share the _id and a nested Deref resolved to the first of them
C7_Witness ==
  /\ family = "Deref"
  /\ tree.type = "Projection"
  /\ Len(options.documents.v) = 2
  /\ options.documents.v[1] # options.documents.v[2]
  /\ GetProp(options.documents.v[1], "_id") = Str("x")
  /\ GetProp(options.documents.v[2], "_id") = Str("x")
  /\ \E i \in 1..Len(log) :
       /\ log[i].type = "Deref"
       /\ log[i].scope.parent # JSNull
       /\ log[i].ret = StaticValue(options.documents.v[1])

\* the nodes of an And node's right operand
RightIds == {"right", "right.base", "right.arg", "right.left", "right.right"}

\* C8: in an And node the right operand is evaluated only after the left one
\* and only if the left one coerces to true: when the left operand is anything
\* but the boolean true, the result is the false Value and no node of the
\* right operand is ever executed; otherwise the result is true exactly when
\* the right operand coerces to true.
C8_AndShortCircuit ==
  family = "And" =>
    LET leftTrue == tree.left \in {ValueNode("left", Bool(TRUE)),
                                   NotNode("left", ValueNode("left.base", Bool(FALSE)))}
        rightTrue == tree.right \in
          {ValueNode("right", Bool(TRUE)),
           NotNode("right", ValueNode("right.base", Bool(FALSE))),
           FuncCallNode("right", "defined", <<ValueNode("right.arg", Num(1))>>),
           OpCallNode("right", "==", ValueNode("right.left", Num(1)),
                      ValueNode("right.right", Num(1)))}
    IN /\ pc # "failed"
       /\ ~leftTrue =>
            /\ result = FALSE_VALUE
            /\ \A i \in 1..Len(log) : log[i].id \notin RightIds
       /\ leftTrue =>
            /\ result = (IF rightTrue THEN TRUE_VALUE ELSE FALSE_VALUE)
            /\ \E i \in 1..Len(log) : log[i].id = "right"
            /\ \A i, j \in 1..Len(log) :
                 (log[i].id \in RightIds /\ log[j].id \notin RightIds) => j < i

\* the left operand was the number 1, the right one true: false, right untouched
C8_Witness ==
  /\ family = "And"
  /\ tree.left = ValueNode("left", Num(1))
  /\ tree.right = ValueNode("right", Bool(TRUE))
  /\ result = FALSE_VALUE
  /\ LogIds = <<"root", "left">>

\* C9: executing an OpCall whose operator, or a FuncCall whose function, is in
\* neither registry aborts the evaluation: the caller's evaluate or get()
\* call fails with the Unknown operator / Unknown function error, the call is
\* the last node executed (none of its operands is), and no Value and no
\* data is produced in its place.
C9_UnknownCallIsFatal ==
  family = "Call" =>
    /\ \A i \in 1..Len(log) :
         log[i].id = "bad" =>
           /\ pc = "failed"
           /\ error \in {"Unknown operator: " \o op : op \in UnknownOperators}
                          \cup {"Unknown function: " \o f : f \in UnknownFunctions}
           /\ i = Len(log)
           /\ \A j \in 1..Len(log) : log[j].id \notin {"x", "y"}
           /\ log[i].ret = Undefined
           /\ output = Undefined
    /\ pc = "failed" => (result = Undefined \/ output = Undefined)
    /\ pc # "failed" => error = ""

\* the unknown operator sat in a Filter predicate and surfaced from get()
C9_Witness ==
  /\ family = "Call"
  /\ tree.type = "Filter"
  /\ pc = "failed"
  /\ IsValue(result)
  /\ error = "Unknown operator: ~~"
  /\ LogIds = <<"root", "base", "bad">>

\* the Filter or Projection node whose query a node of the nested family
\* belongs to ("" for the nodes of the root scope)
Enclosing(id) ==
  CASE id \in {"par0", "p1", "v1"} -> ""
    [] id \in {"p2", "v2"} -> "p1"
    [] id \in {"par", "this", "arr", "p3", "v3", "op", "c"} -> "p2"
    [] id = "par3" -> "p3"

\* C10: every scope of an evaluation has the root scope's params and source,
\* and its parent is the scope in which the enclosing Filter or Projection
\* node was executed (null for the root scope); a Parent node yields the null
\* Value in the root scope and otherwise the value of the scope in which the
\* enclosing node was executed, not that of a scope further up.
C10_ScopeChain ==
  (family = "Nest" /\ pc # "idle") =>
    LET root == log[1].scope
        hasIdentity == options.params.t = "object" /\ HasOwnProperty(options.params, "identity")
    IN /\ pc # "failed"
       /\ root.parent = JSNull
       /\ root.value = NULL_VALUE
       /\ root.source = StaticSource(IF options.documents.t = "undefined" THEN Arr(<<>>)
                                     ELSE options.documents)
       /\ GetProp(root.params, "identity") =
            (IF hasIdentity THEN GetProp(options.params, "identity") ELSE Str("groot"))
       /\ \A i \in 1..Len(log) :
            LET c == log[i] IN
            /\ c.scope.params = root.params
            /\ c.scope.source = root.source
            /\ IF Enclosing(c.id) = ""
               THEN /\ c.scope = root
                    /\ c.type = "Parent" => c.ret = NULL_VALUE
               ELSE \E j \in 1..(i - 1) :
                      /\ log[j].id = Enclosing(c.id)
                      /\ c.scope.parent = log[j].scope
                      /\ c.type = "Parent" => c.ret = log[j].scope.value
       /\ (/\ pc = "materialized"
           /\ tree.type = "Projection" /\ tree.query.type = "Projection"
           /\ tree.base.value.t = "array" /\ tree.query.base.value.t = "array"
           /\ tree.query.query = ParentNode("par")) =>
            output = Arr([i \in 1..Len(tree.base.value.v) |->
                            Arr([j \in 1..Len(tree.query.base.value.v) |->
                                   tree.base.value.v[i]])])

\* three levels down, Parent yielded the value one level up, not two
C10_Witness ==
  /\ family = "Nest"
  /\ tree.id = "p1"
  /\ tree.base.value = Arr(<<Num(3)>>)
  /\ tree.query.base.value = Arr(<<Num(1), Num(2)>>)
  /\ \E i \in 1..Len(log) :
       /\ log[i].id = "par3"
       /\ log[i].ret = StaticValue(Num(2))
       /\ log[i].scope.value = StaticValue(Num(7))
       /\ log[i].scope.parent.parent.value = StaticValue(Num(3))
       /\ log[i].scope.parent.parent.parent.parent = JSNull

====
